---- MODULE Spec2Model ----
(***************************************************************************)
(* A model of quectodom.js: the DOM wrapper hierarchy (DOMWrapper,         *)
(* ParentWrapper, TextNodeWrapper, ElementWrapper), the TableMaker row     *)
(* projection, and the CachedFile time-expiring cache.                     *)
(*                                                                         *)
(* The platform document is a heap of nodes: dom[i] is the node with       *)
(* identity i.  JavaScript values are tagged records, so that typeof,      *)
(* instanceof, hasOwnProperty and toString are computed, not assumed.      *)
(***************************************************************************)
EXTENDS Integers, Sequences, FiniteSets, TLC

VARIABLES
    dom,        \* the platform's nodes, by identity
    wrappers,   \* every wrapper object constructed so far
    thrown,     \* whether the last operation ended by throwing
    held,       \* the wrappers the caller holds a reference to
    last,       \* the last operation: its name, receiver, arguments, pre-state
    tm,         \* the TableMaker object, NoTable before its construction
    fresh,      \* a second TableMaker, built when tm's body was last cleared
    now,        \* Date.now()
    cache,      \* the CachedFile object
    pending,    \* get() calls suspended in their await
    event,      \* the last step of a get() call: its start or its settling
    stats       \* counters of the fetch layer, and its last failure

vars == <<dom, wrappers, thrown, held, last, tm, fresh, now, cache, pending, event, stats>>
domVars == <<dom, wrappers, thrown, held, last, tm, fresh>>
cacheVars == <<now, cache, pending, event, stats>>

(***************************************************************************)
(* Bounds of the model.                                                    *)
(***************************************************************************)
MaxHeld == 2
MaxArgs == 2
MaxNodes == 4

(***************************************************************************)
(* JavaScript values.                                                      *)
(***************************************************************************)
Null == [k |-> "null"]
Undef == [k |-> "undefined"]
Str(s) == [k |-> "string", s |-> s]
Num(n) == [k |-> "number", n |-> n]
Bool(b) == [k |-> "boolean", b |-> b]
Wrap(w) == [k |-> "wrapper", w |-> w]
PlainObject == [k |-> "object"]

typeof(v) ==
    IF v.k \in {"null", "wrapper", "object"} THEN "object" ELSE v.k

isNullish(v) == v.k \in {"null", "undefined"}

Range(s) == {s[i] : i \in 1..Len(s)}

Digits == <<"0", "1", "2", "3", "4", "5", "6", "7", "8", "9">>

RECURSIVE natToString(_)
natToString(n) ==
    IF n < 10 THEN Digits[n + 1]
    ELSE natToString(n \div 10) \o Digits[(n % 10) + 1]

toString(v) ==
    CASE v.k = "string" -> v.s
      [] v.k = "number" -> natToString(v.n)
      [] v.k = "boolean" -> IF v.b THEN "true" ELSE "false"
      [] OTHER -> "[object Object]"

truthy(v) ==
    CASE v.k = "string" -> v.s # ""
      [] v.k = "number" -> v.n # 0
      [] v.k = "boolean" -> v.b
      [] v.k \in {"null", "undefined"} -> FALSE
      [] OTHER -> TRUE

(***************************************************************************)
(* The platform document.  A world is [dom, wr, thrown]: the nodes, the    *)
(* wrapper objects, and whether an exception is propagating.               *)
(***************************************************************************)
World(d, w, t) == [dom |-> d, wr |-> w, thrown |-> t]

throw(W) == [W EXCEPT !.thrown = TRUE]

createTextNode(W, s) ==
    [W EXCEPT !.dom = Append(@, [type |-> "text", tag |-> "", text |-> s,
                                 classes |-> {}, kids |-> <<>>, parent |-> 0])]

createElement(W, tag) ==
    [W EXCEPT !.dom = Append(@, [type |-> "elem", tag |-> tag, text |-> "",
                                 classes |-> {}, kids |-> <<>>, parent |-> 0])]

\* Node.parentNode: 0 stands for null.
parentNode(d, c) == d[c].parent

RECURSIVE contains(_, _, _)
contains(d, a, n) ==
    IF n = 0 THEN FALSE
    ELSE IF n = a THEN TRUE
    ELSE contains(d, a, parentNode(d, n))

without(s, c) == SelectSeq(s, LAMBDA x : x # c)

removeChild(W, p, c) ==
    [W EXCEPT !.dom[p].kids = without(@, c), !.dom[c].parent = 0]

\* Node.appendChild: undefined is a TypeError, a cycle a HierarchyRequestError;
\* a node that has a parent is first removed from it.
appendChild(W, p, c) ==
    IF W.thrown THEN W
    ELSE IF c = 0 \/ contains(W.dom, c, p) THEN throw(W)
    ELSE LET q == parentNode(W.dom, c)
             W1 == IF q = 0 THEN W ELSE removeChild(W, q, c)
         IN  [W1 EXCEPT !.dom[p].kids = Append(@, c), !.dom[c].parent = p]

\* Element.children: the child nodes that are elements.
children(d, p) == SelectSeq(d[p].kids, LAMBDA c : d[c].type = "elem")

(***************************************************************************)
(* The wrapper classes.  A constructor returns the world with the new      *)
(* wrapper as the last entry of wr.                                        *)
(***************************************************************************)
DOMWrapper(W, cls, element) ==
    [W EXCEPT !.wr = Append(@, [cls |-> cls, element |-> element])]

newest(W) == Len(W.wr)

\* this.element of a value: undefined (0) unless the value is a wrapper.
elementOf(W, v) == IF v.k = "wrapper" THEN W.wr[v.w].element ELSE 0

TextNodeWrapper(W, text) ==
    DOMWrapper(createTextNode(W, IF truthy(text) THEN toString(text) ELSE ""),
               "TextNodeWrapper", Len(W.dom) + 1)

ElementWrapper(W, tag) ==
    DOMWrapper(createElement(W, tag), "ElementWrapper", Len(W.dom) + 1)

RECURSIVE addClasses(_, _, _)
addClasses(W, this, classes) ==
    IF classes = <<>> THEN W
    ELSE LET cls == Head(classes)
             e == W.wr[this].element
             W1 == IF truthy(cls)
                   THEN [W EXCEPT !.dom[e].classes = @ \cup {toString(cls)}]
                   ELSE W
         IN  addClasses(W1, this, Tail(classes))

clearFirstOnly(W, this) ==
    LET e == W.wr[this].element
    IN  IF Len(children(W.dom, e)) > 0
        THEN removeChild(W, e, children(W.dom, e)[1])
        ELSE W

RECURSIVE clear(_, _)
clear(W, this) ==
    LET e == W.wr[this].element
    IN  IF Len(children(W.dom, e)) > 0
        THEN clear(removeChild(W, e, children(W.dom, e)[1]), this)
        ELSE W

\* The child a value stands for in append: a new text wrapper for null,
\* undefined and every value whose typeof is not "object", else the value.
resolveChild(W, child) ==
    IF isNullish(child) THEN TextNodeWrapper(W, Null)
    ELSE IF typeof(child) # "object"
         THEN TextNodeWrapper(W, Str(toString(child)))
    ELSE W

resolved(W, child) ==
    IF isNullish(child) \/ typeof(child) # "object"
    THEN Wrap(newest(resolveChild(W, child)))
    ELSE child

RECURSIVE append(_, _, _)
append(W, this, kids) ==
    IF kids = <<>> \/ W.thrown THEN W
    ELSE LET child == Head(kids)
             W1 == resolveChild(W, child)
             W2 == appendChild(W1, W.wr[this].element,
                               elementOf(W1, resolved(W, child)))
         IN  append(W2, this, Tail(kids))

(***************************************************************************)
(* TableMaker.  An object is [W, this]: the world and the object built.    *)
(***************************************************************************)
\* The wrappers of the table structure: table, the TableMaker itself
\* (super(table.element)), thead and tbody.
TableMakerSharedBody(W) ==
    LET W1 == ElementWrapper(W, "table")
        W2 == DOMWrapper(W1, "TableMaker", W1.wr[newest(W1)].element)
        W3 == ElementWrapper(W2, "thead")
        W4 == DOMWrapper(W3, "ElementWrapper", W3.wr[newest(W3)].element)
    IN  [W |-> W4,
         this |-> [cls |-> "TableMaker", self |-> newest(W2), table |-> newest(W1),
                   thead |-> newest(W3), tbody |-> newest(W4),
                   headings |-> <<>>, headings_by_name |-> [n \in {} |-> 0]]]

TableMakerParts(W) ==
    LET W1 == ElementWrapper(W, "table")
        W2 == DOMWrapper(W1, "TableMaker", W1.wr[newest(W1)].element)
        W3 == ElementWrapper(W2, "thead")
        W4 == ElementWrapper(W3, "tbody")
    IN  [W |-> W4,
         this |-> [cls |-> "TableMaker", self |-> newest(W2), table |-> newest(W1),
                   thead |-> newest(W3), tbody |-> newest(W4),
                   headings |-> <<>>, headings_by_name |-> [n \in {} |-> 0]]]

RECURSIVE addHeadings(_, _, _, _)
addHeadings(S, headrow, headings, i) ==
    IF i > Len(headings) THEN S
    ELSE LET W1 == TextNodeWrapper(S.W, headings[i].label)
             th_label == newest(W1)
             W2 == ElementWrapper(W1, "th")
             th == newest(W2)
             W3 == append(W2, th, <<Wrap(th_label)>>)
             h == [name |-> headings[i].name, pos |-> i - 1,
                   label |-> th_label, th |-> th]
             byName == S.this.headings_by_name
             W4 == append(W3, headrow, <<Wrap(th)>>)
         IN  addHeadings(
                 [W |-> W4,
                  this |-> [S.this EXCEPT
                      !.headings = Append(@, h),
                      !.headings_by_name =
                          [n \in DOMAIN byName \cup {h.name} |->
                              IF n = h.name THEN h ELSE byName[n]]]],
                 headrow, headings, i + 1)

TableMaker(W, headings) ==
    LET P == TableMakerParts(W)
        W1 == ElementWrapper(P.W, "tr")
        headrow == newest(W1)
        S == addHeadings([W |-> W1, this |-> P.this], headrow, headings, 1)
        W2 == append(S.W, S.this.thead, <<Wrap(headrow)>>)
        W3 == append(W2, S.this.table, <<Wrap(S.this.thead), Wrap(S.this.tbody)>>)
    IN  [W |-> W3, this |-> S.this]

\* A row record is the sequence of its own properties, in insertion order.
hasOwnProperty(row, name) == \E i \in 1..Len(row) : row[i].name = name

get(row, name) == row[CHOOSE i \in 1..Len(row) : row[i].name = name].value

\* obj.name for an object value: undefined when it has no such property.
property(v, name) == IF name \in DOMAIN v THEN v[name] ELSE Undef

isDecoratedNoWrapperTest(cellvalue) ==
    /\ ~isNullish(cellvalue)
    /\ typeof(cellvalue) = "object"

isDecorated(cellvalue) ==
    /\ ~isNullish(cellvalue)
    /\ typeof(cellvalue) = "object"
    /\ cellvalue.k # "wrapper"

fillCell(W, cell, row, col) ==
    IF hasOwnProperty(row, col.name)
    THEN LET cellvalue == get(row, col.name)
         IN  IF isDecorated(cellvalue)
             THEN LET W1 == IF "classes" \in DOMAIN cellvalue
                            THEN addClasses(W, cell, cellvalue.classes)
                            ELSE W
                  IN  append(W1, cell, <<property(cellvalue, "content")>>)
             ELSE append(W, cell, <<cellvalue>>)
    ELSE append(W, cell, <<Str("")>>)

columnsByKey(this, row) ==
    LET own == SelectSeq(row, LAMBDA q : q.name \in DOMAIN this.headings_by_name)
    IN  [i \in 1..Len(own) |-> this.headings_by_name[own[i].name]]

\* The columns a row is projected on: for (const col of this.headings).
columns(this, row) == this.headings

RECURSIVE appendCells(_, _, _, _)
appendCells(W, tr, row, cols) ==
    IF cols = <<>> \/ W.thrown THEN W
    ELSE LET W1 == ElementWrapper(W, "td")
             cell == newest(W1)
             W2 == fillCell(W1, cell, row, Head(cols))
             W3 == append(W2, tr, <<Wrap(cell)>>)
         IN  appendCells(W3, tr, row, Tail(cols))

RECURSIVE appendRowsReplacing(_, _, _)
appendRowsReplacing(W, this, rows) ==
    IF rows = <<>> \/ W.thrown THEN W
    ELSE LET W1 == ElementWrapper(clear(W, this.tbody), "tr")
             tr == newest(W1)
             W2 == appendCells(W1, tr, Head(rows), columns(this, Head(rows)))
             W3 == append(W2, this.tbody, <<Wrap(tr)>>)
         IN  appendRowsReplacing(W3, this, Tail(rows))

RECURSIVE appendRows(_, _, _)
appendRows(W, this, rows) ==
    IF rows = <<>> \/ W.thrown THEN W
    ELSE LET W1 == ElementWrapper(W, "tr")
             tr == newest(W1)
             W2 == appendCells(W1, tr, Head(rows), columns(this, Head(rows)))
             W3 == append(W2, this.tbody, <<Wrap(tr)>>)
         IN  appendRows(W3, this, Tail(rows))

\* What a subtree looks like, node identities aside.
RECURSIVE structure(_, _)
structure(d, n) ==
    [type |-> d[n].type, tag |-> d[n].tag, text |-> d[n].text,
     classes |-> d[n].classes,
     kids |-> [i \in 1..Len(d[n].kids) |-> structure(d, d[n].kids[i])]]

(***************************************************************************)
(* The caller's operations on wrappers.                                    *)
(***************************************************************************)
NoTable == [cls |-> "none"]
NoOp == [op |-> "none"]
NoCache == [duration |-> 0, expiry |-> 0, data |-> Null]
NoStats ==
    [calls |-> 0, fetches |-> 0, stores |-> 0, storedAt |-> 0, latest |-> Null,
     failed |-> NoOp]

Tags == {"div"}
Texts == {Undef, Str("x")}
Leaves == {Null, Undef, Str("a"), Num(0), Num(10), Bool(FALSE)}
ChildValues == Leaves \cup {PlainObject} \cup {Wrap(w) : w \in held}

SeqsUpTo(S, n) == UNION {[1..m -> S] : m \in 0..n}

parents == {w \in held : wrappers[w].cls = "ElementWrapper"}

world == World(dom, wrappers, FALSE)

DomInit ==
    /\ dom = <<>>
    /\ wrappers = <<>>
    /\ thrown = FALSE
    /\ held = {}
    /\ last = NoOp
    /\ tm = NoTable
    /\ fresh = NoTable

CacheIdle ==
    /\ now = 1
    /\ cache = NoCache
    /\ pending = {}
    /\ event = NoOp
    /\ stats = NoStats

Init == DomInit /\ CacheIdle

commit(W) ==
    /\ dom' = W.dom
    /\ wrappers' = W.wr
    /\ thrown' = W.thrown

NewElementWrapper(tag) ==
    /\ Cardinality(held) < MaxHeld
    /\ Len(dom) < MaxNodes
    /\ LET W == ElementWrapper(world, tag)
       IN  /\ commit(W)
           /\ held' = held \cup {newest(W)}
           /\ last' = [op |-> "new", this |-> newest(W)]
    /\ UNCHANGED <<tm, fresh>>
    /\ UNCHANGED cacheVars

NewTextNodeWrapper(text) ==
    /\ Cardinality(held) < MaxHeld
    /\ Len(dom) < MaxNodes
    /\ LET W == TextNodeWrapper(world, text)
       IN  /\ commit(W)
           /\ held' = held \cup {newest(W)}
           /\ last' = [op |-> "new", this |-> newest(W)]
    /\ UNCHANGED <<tm, fresh>>
    /\ UNCHANGED cacheVars

CallAppend(this, kids) ==
    /\ Len(dom) + Len(kids) <= MaxNodes
    /\ LET W == append(world, this, kids)
       IN  /\ commit(W)
           /\ last' = [op |-> "append", this |-> this, args |-> kids,
                       pre |-> dom, ret |-> IF W.thrown THEN 0 ELSE this]
    /\ UNCHANGED <<held, tm, fresh>>
    /\ UNCHANGED cacheVars

CallClear(this) ==
    /\ LET W == clear(world, this)
       IN  /\ commit(W)
           /\ last' = [op |-> "clear", this |-> this, args |-> <<>>,
                       pre |-> dom, ret |-> IF W.thrown THEN 0 ELSE this]
    /\ UNCHANGED <<held, tm, fresh>>
    /\ UNCHANGED cacheVars

(***************************************************************************)
(* The caller's operations on a TableMaker.                                *)
(***************************************************************************)
MaxRows == 2
MaxCellWrappers == 1

Time == [name |-> "t", label |-> Str("Time")]
Value == [name |-> "v", label |-> Str("Value")]
HeadingSeqs == {<<>>, <<Time>>, <<Time, Value>>, <<Value, Time>>}

Cell(name, value) == [name |-> name, value |-> value]
Decorated(classes, content) ==
    [k |-> "object", classes |-> classes, content |-> content]
Hot == Decorated(<<Str("hot")>>, Str("99"))
Mixed == Decorated(<<Str(""), Null, Str("hot"), Str("cold")>>, Num(0))
Twice == Decorated(<<Str("hot"), Str("hot")>>, Null)
Bare == [k |-> "object", classes |-> <<>>]
Holding(w) == [k |-> "object", content |-> Wrap(w)]

reverse(s) == [i \in 1..Len(s) |-> s[Len(s) + 1 - i]]

WrapperRows ==
    {<<Cell("t", Wrap(w))>> : w \in held}
        \cup {<<Cell("v", Wrap(w)), Cell("t", Holding(w))>> : w \in held}

Rows ==
    {<<>>,
     <<Cell("t", Str("09:00"))>>,
     <<Cell("v", Num(42))>>,
     <<Cell("t", Str("10:00")), Cell("v", Hot)>>,
     <<Cell("v", Twice), Cell("t", Null)>>,
     <<Cell("t", Mixed), Cell("v", Bool(FALSE))>>,
     <<Cell("v", Bare), Cell("t", Undef)>>}
    \cup WrapperRows

ResetRows ==
    {<<Cell("v", Num(42))>>,
     <<Cell("t", Str("10:00")), Cell("v", Hot)>>}
    \cup WrapperRows

rowsMade == Cardinality({n \in 1..Len(dom) : dom[n].tag = "tr"})

\* The {name, label} arguments a TableMaker was built from.
headingsOf(W, this) ==
    [i \in 1..Len(this.headings) |->
        [name |-> this.headings[i].name,
         label |-> Str(W.dom[W.wr[this.headings[i].label].element].text)]]

NewTableMaker(headings) ==
    /\ tm = NoTable
    /\ LET S == TableMaker(world, headings)
       IN  /\ commit(S.W)
           /\ tm' = S.this
           /\ last' = [op |-> "new", this |-> S.this.self]
    /\ UNCHANGED <<held, fresh>>
    /\ UNCHANGED cacheVars

CallAppendRows(rows) ==
    /\ tm # NoTable
    /\ rowsMade + Len(rows) <= MaxRows + 1
    /\ LET W == appendRows(world, tm, rows)
       IN  /\ commit(W)
           /\ last' = [op |-> "appendRows", this |-> tm.self, args |-> rows,
                       pre |-> dom, wrappers |-> Len(wrappers), ret |-> IF W.thrown THEN 0 ELSE tm.self]
    /\ fresh' = IF fresh = NoTable THEN fresh
                ELSE [fresh EXCEPT !.W = appendRows(@, fresh.this, rows),
                                   !.rows = @ + Len(rows)]
    /\ UNCHANGED <<held, tm>>
    /\ UNCHANGED cacheVars

\* tm.tbody.clear(), and beside it a new TableMaker with the same headings.
ClearBody ==
    /\ tm # NoTable
    /\ LET W == clear(world, tm.tbody)
           S == TableMaker(W, headingsOf(W, tm))
       IN  /\ commit(W)
           /\ last' = [op |-> "clear", this |-> tm.tbody, args |-> <<>>,
                       pre |-> dom, ret |-> IF W.thrown THEN 0 ELSE tm.tbody]
           /\ fresh' = [cls |-> "fresh", W |-> S.W, this |-> S.this, rows |-> 0,
                        removed |-> Len(dom[wrappers[tm.tbody].element].kids)]
    /\ UNCHANGED <<held, tm>>
    /\ UNCHANGED cacheVars

NewCellWrapper ==
    /\ tm = NoTable
    /\ Cardinality(held) < MaxCellWrappers
    /\ NewTextNodeWrapper(Str("x"))

NextTable ==
    \/ NewCellWrapper
    \/ \E headings \in HeadingSeqs : NewTableMaker(headings)
    \/ \E n \in 0..(MaxRows + 1 - rowsMade) :
           \E rows \in [1..n -> Rows] : CallAppendRows(rows)

NextReset ==
    \/ NewCellWrapper
    \/ \E headings \in {<<Time>>, <<Value, Time>>} : NewTableMaker(headings)
    \/ \E n \in 0..(MaxRows + 1 - rowsMade) :
           \E rows \in [1..n -> ResetRows] : CallAppendRows(rows)
    \/ ClearBody

SpecTable == Init /\ [][NextTable]_vars

SpecReset == Init /\ [][NextReset]_vars

NextDom ==
    \/ \E tag \in Tags : NewElementWrapper(tag)
    \/ \E text \in Texts : NewTextNodeWrapper(text)
    \/ \E this \in parents : \E kids \in SeqsUpTo(ChildValues, MaxArgs) : CallAppend(this, kids)
    \/ \E this \in parents : CallClear(this)

SpecDom == Init /\ [][NextDom]_vars

(***************************************************************************)
(* CachedFile and the fetch layer.  Time is counted in units of 500 ms     *)
(* from just before the page was loaded, so Date.now() starts at 1.        *)
(***************************************************************************)
MaxTime == 4
MaxCalls == 3
Durations == {0, 1, 2}

CachedFile(cache_duration) ==
    [duration |-> cache_duration, expiry |-> 0, data |-> Null]

\* The responseText of the n-th response the server gives: n in decimal.
RECURSIVE natToChars(_)
natToChars(n) ==
    IF n < 10 THEN <<Digits[n + 1]>>
    ELSE Append(natToChars(n \div 10), Digits[(n % 10) + 1])

digitOf(ch) == (CHOOSE d \in 1..10 : Digits[d] = ch) - 1

RECURSIVE digitsValue(_)
digitsValue(text) ==
    IF text = <<>> THEN 0
    ELSE 10 * digitsValue(SubSeq(text, 1, Len(text) - 1)) + digitOf(text[Len(text)])

\* JSON.parse on a text of characters: a number, or a SyntaxError.
JSONparse(text) ==
    IF text # <<>> /\ \A i \in 1..Len(text) : text[i] \in Range(Digits)
    THEN [ok |-> TRUE, value |-> Num(digitsValue(text))]
    ELSE [ok |-> FALSE, error |-> [name |-> "SyntaxError"]]

\* request: the promise settles on the load or the error event of the XHR;
\* on error the XHR is attached to the event and the event is the reason.
request(xhr, ev) ==
    IF ev.type = "load"
    THEN [ok |-> TRUE, value |-> [xhr |-> xhr, responseText |-> ev.text]]
    ELSE [ok |-> FALSE, error |-> [name |-> "ProgressEvent", xhr |-> xhr]]

requestJSON(xhr, ev) ==
    LET r == request(xhr, ev)
    IN  IF r.ok THEN JSONparse(r.value.responseText) ELSE r

shouldFetchAtExpiry(this, force) == force \/ (this.expiry <= now)

shouldFetchSingleFlight(this, force) ==
    pending = {} /\ (force \/ (this.expiry < now))

\* The condition of get: force || (this._expiry < Date.now()).
shouldFetch(this, force) == force \/ (this.expiry < now)

resumeForgetting(this, r) ==
    IF r.ok
    THEN [this |-> [this EXCEPT !.data = r.value, !.expiry = now + this.duration],
          state |-> "resolved", value |-> r.value]
    ELSE [this |-> [this EXCEPT !.data = Null, !.expiry = 0],
          state |-> "rejected", value |-> r.error]

\* get after its await: a rejection leaves get at once; else the data and
\* the expiry are stored and this._data is returned.
resume(this, r) ==
    IF r.ok
    THEN LET stored == [this EXCEPT !.data = r.value,
                                    !.expiry = now + this.duration]
         IN  [this |-> stored, state |-> "resolved", value |-> stored.data]
    ELSE [this |-> this, state |-> "rejected", value |-> r.error]

CacheInit ==
    /\ now = 1
    /\ cache \in {CachedFile(d) : d \in Durations}
    /\ pending = {}
    /\ event = NoOp
    /\ stats = NoStats

InitCache == DomInit /\ CacheInit

Tick ==
    /\ now < MaxTime
    /\ now' = now + 1
    /\ UNCHANGED <<cache, pending, event, stats>>
    /\ UNCHANGED domVars

\* A call suspended in its await: what the cache was when it started.
suspended(id, force) ==
    [id |-> id, force |-> force, seen |-> cache, stores |-> stats.stores,
     inflight |-> {[id |-> p.id, force |-> p.force] : p \in pending}]

Get(force) ==
    /\ stats.calls < MaxCalls
    /\ LET id == stats.calls + 1
           e == [op |-> "get", id |-> id, force |-> force, start |-> now,
                 inflight |-> {p.id : p \in pending}, fetches |-> stats.fetches]
       IN  IF shouldFetch(cache, force)
           THEN /\ pending' = pending \cup {suspended(id, force)}
                /\ event' = [fetched |-> TRUE, state |-> "pending"] @@ e
                /\ stats' = [stats EXCEPT !.calls = @ + 1, !.fetches = @ + 1]
           ELSE /\ pending' = pending
                /\ event' = [fetched |-> FALSE, state |-> "resolved",
                             value |-> cache.data] @@ e
                /\ stats' = [stats EXCEPT !.calls = @ + 1]
    /\ UNCHANGED <<now, cache>>
    /\ UNCHANGED domVars

\* The XHR of a pending call fires its load or error event, and get goes on.
Settle(call, xhrEvent) ==
    /\ call \in pending
    /\ LET r == requestJSON(call.id, xhrEvent)
           g == resume(cache, r)
       IN  /\ cache' = g.this
           /\ event' = [op |-> "settle", call |-> call, state |-> g.state,
                        value |-> g.value, reply |-> r, before |-> cache,
                        end |-> now]
           /\ stats' = [stats EXCEPT
                  !.stores = IF r.ok THEN @ + 1 ELSE @,
                  !.storedAt = IF r.ok THEN now ELSE @,
                  !.latest = IF r.ok THEN r.value ELSE @,
                  !.failed = IF r.ok THEN @
                             ELSE [op |-> "failed", before |-> cache,
                                   stores |-> stats.stores]]
    /\ pending' = pending \ {call}
    /\ UNCHANGED now
    /\ UNCHANGED domVars

Load(call) ==
    Settle(call, [type |-> "load", text |-> natToChars(10 + call.id)])

LoadGarbled(call) ==
    Settle(call, [type |-> "load", text |-> <<"{">>])

Error(call) ==
    Settle(call, [type |-> "error"])

NextCache ==
    \/ Tick
    \/ \E force \in BOOLEAN : Get(force)
    \/ \E call \in pending : Load(call)
    \/ \E call \in pending : LoadGarbled(call)
    \/ \E call \in pending : Error(call)

SpecCache == InitCache /\ [][NextCache]_vars

(***************************************************************************)
(* Claims about ParentWrapper.                                             *)
(***************************************************************************)
\* The wrapper arguments of the last append are pairwise distinct and none of
\* them holds the container: the platform accepts every one of them.
AcceptableArgs ==
    LET a == last.args
        p == wrappers[last.this].element
    IN  /\ \A i, j \in 1..Len(a) :
              (i # j /\ a[i].k = "wrapper") => a[i] # a[j]
        /\ \A i \in 1..Len(a) :
              a[i].k = "wrapper" => ~contains(last.pre, wrappers[a[i].w].element, p)

argNodes == {wrappers[a.w].element : a \in {x \in Range(last.args) : x.k = "wrapper"}}

\* C3: append resolves every argument by one rule (null or undefined: an
\* empty text node; any other non-wrapper value, objects included: a text
\* node of its string conversion; a wrapper: itself), the resolved nodes are
\* the last n children in argument order, the earlier children keep their
\* order, and append returns the container.
C3_AppendResolvesEveryArgument ==
    (last.op = "append" /\ AcceptableArgs) =>
        LET p == wrappers[last.this].element
            n == Len(last.args)
            k == dom[p].kids
            base == Len(k) - n
        IN  /\ ~thrown
            /\ last.ret = last.this
            /\ base >= 0
            /\ \A i \in 1..n :
                  LET a == last.args[i]
                      c == k[base + i]
                  IN  IF a.k = "wrapper" THEN c = wrappers[a.w].element
                      ELSE /\ c > Len(last.pre)
                           /\ dom[c].type = "text"
                           /\ dom[c].text = IF isNullish(a) THEN "" ELSE toString(a)
            /\ SubSeq(k, 1, base)
                   = SelectSeq(last.pre[p].kids, LAMBDA c : c \notin argNodes)

\* C4: after clear the container has no child node at all, whatever it held,
\* and clear returns the container; on an empty container nothing changes.
C4_ClearLeavesNoChildren ==
    last.op = "clear" =>
        LET p == wrappers[last.this].element
        IN  /\ dom[p].kids = <<>>
            /\ last.ret = last.this
            /\ (last.pre[p].kids = <<>> => dom = last.pre)

(***************************************************************************)
(* Claims about TableMaker.                                                *)
(***************************************************************************)
tableNode == wrappers[tm.table].element
bodyNode == wrappers[tm.tbody].element
appended == last.op = "appendRows"
isNew(n) == n > Len(last.pre)

\* The text a leaf value is shown as.
shown(v) == IF isNullish(v) THEN "" ELSE toString(v)

\* The wrappers the last appendRows call resolved as cell content, in order.
RECURSIVE passedIn(_, _)
passedIn(row, cols) ==
    IF cols = <<>> THEN <<>>
    ELSE LET name == Head(cols).name
             v == IF hasOwnProperty(row, name) THEN get(row, name) ELSE Undef
             c == IF v.k = "object" THEN property(v, "content") ELSE v
         IN  (IF c.k = "wrapper" THEN <<c.w>> ELSE <<>>) \o passedIn(row, Tail(cols))

RECURSIVE passed(_)
passed(rows) ==
    IF rows = <<>> THEN <<>>
    ELSE passedIn(Head(rows), tm.headings) \o passed(Tail(rows))

movedNodes == {wrappers[w].element : w \in Range(passed(last.args))}

\* The content the cell of a row under a heading name must show.
cellShows(cell, row, name) ==
    LET k == dom[cell].kids
        v == IF hasOwnProperty(row, name) THEN get(row, name) ELSE Str("")
        c == IF v.k = "object" THEN property(v, "content") ELSE v
    IN  IF c.k = "wrapper"
        THEN LET e == wrappers[c.w].element
             IN  /\ isNew(dom[e].parent)
                 /\ k = IF dom[e].parent = cell THEN <<e>> ELSE <<>>
        ELSE /\ Len(k) = 1
             /\ isNew(k[1])
             /\ dom[k[1]].type = "text"
             /\ dom[k[1]].text = shown(c)

\* The last appendRows call made again from the same state, on the same row
\* records with their keys in the opposite order.
otherKeyOrder ==
    appendRows(World(last.pre, SubSeq(wrappers, 1, last.wrappers), FALSE), tm,
               [i \in 1..Len(last.args) |-> reverse(last.args[i])])

\* C1: appendRows(r1..rn) adds exactly n rows to the body, in argument
\* order, each with exactly |H| cells, the cell at index i rendered for
\* heading H[i]; the key order of a row record does not change the result.
C1_RowsProjectedOnHeadings ==
    appended =>
        LET n == Len(last.args)
            k == dom[bodyNode].kids
            base == Len(last.pre[bodyNode].kids)
        IN  /\ ~thrown
            /\ Len(k) = base + n
            /\ \A i \in 1..n :
                  LET tr == k[base + i]
                  IN  /\ isNew(tr)
                      /\ dom[tr].tag = "tr"
                      /\ Len(dom[tr].kids) = Len(tm.headings)
                      /\ \A j \in 1..Len(tm.headings) :
                            LET cell == dom[tr].kids[j]
                            IN  /\ isNew(cell)
                                /\ dom[cell].tag = "td"
                                /\ cellShows(cell, last.args[i], tm.headings[j].name)
            /\ \A i, j \in 1..n : i < j => k[base + i] < k[base + j]
            /\ structure(dom, tableNode) = structure(otherKeyOrder.dom, tableNode)

C1_Witness ==
    /\ appended
    /\ Len(last.args) = 2
    /\ Len(tm.headings) = 2
    /\ \E i \in 1..2 : Len(last.args[i]) = 2 /\ last.args[i][1].name # tm.headings[1].name
    /\ Len(last.pre[bodyNode].kids) = 0

\* The class tokens of a classes sequence: its non-empty strings.
tokens(v) ==
    IF "classes" \in DOMAIN v
    THEN {c.s : c \in {x \in Range(v.classes) : x.k = "string" /\ x.s # ""}}
    ELSE {}

CellValues ==
    Leaves \cup {Hot, Mixed, Twice, Bare, PlainObject}
           \cup {Wrap(w) : w \in held} \cup {Holding(w) : w \in held}

\* A cell filled from value v under heading "t" in the present document.
filled(v) ==
    LET W1 == ElementWrapper(world, "td")
        cell == newest(W1)
        W2 == fillCell(W1, cell, <<Cell("t", v)>>, [name |-> "t"])
        n == W1.wr[cell].element
        c == IF v.k = "object" THEN property(v, "content") ELSE v
    IN  /\ ~W2.thrown
        /\ W2.dom[n].classes = IF v.k = "object" THEN tokens(v) ELSE {}
        /\ Len(W2.dom[n].kids) = 1
        /\ LET x == W2.dom[n].kids[1]
           IN  IF c.k = "wrapper" THEN x = wrappers[c.w].element
               ELSE /\ x > Len(W1.dom)
                    /\ W2.dom[x].type = "text"
                    /\ W2.dom[x].text = shown(c)

\* C5: a decorated record {classes: C, content: X} gives a cell whose class
\* tokens are exactly those of C and whose single child is X resolved as
\* append resolves it; a wrapper or a primitive is never taken for a
\* decorated record, and a decorated record is never appended itself.
C5_DecoratedCells ==
    /\ \A v \in CellValues : filled(v)
    /\ appended =>
          \A i \in 1..Len(last.args) : \A j \in 1..Len(tm.headings) :
              LET row == last.args[i]
                  name == tm.headings[j].name
                  tr == dom[bodyNode].kids[Len(last.pre[bodyNode].kids) + i]
                  cell == dom[tr].kids[j]
              IN  /\ cellShows(cell, row, name)
                  /\ dom[cell].classes =
                        IF hasOwnProperty(row, name) /\ get(row, name).k = "object"
                        THEN tokens(get(row, name)) ELSE {}

C5_Witness ==
    /\ appended
    /\ \E c \in 1..Len(dom) :
          /\ dom[c].tag = "td"
          /\ dom[c].classes = {"hot", "cold"}
          /\ Len(dom[c].kids) = 1
          /\ dom[dom[c].kids[1]].text = "0"
    /\ \E c \in 1..Len(dom) : \E w \in held :
          /\ dom[c].tag = "td"
          /\ dom[c].kids = <<wrappers[w].element>>

\* The rows the body held before the last call, each still at its index
\* with the same cells.
rowsKept ==
    LET k0 == last.pre[bodyNode].kids
        k == dom[bodyNode].kids
    IN  /\ Len(k) >= Len(k0)
        /\ SubSeq(k, 1, Len(k0)) = k0
        /\ \A i \in 1..Len(k0) : dom[k0[i]].kids = last.pre[k0[i]].kids

oldCells == UNION {Range(last.pre[r].kids) : r \in Range(last.pre[bodyNode].kids)}

\* C6 as stated: appendRows is purely additive, whatever the row values,
\* a wrapper already placed in the table included: every earlier row is still
\* there at its index with the same cells and the same cell contents.
C6_PurelyAdditive ==
    appended =>
        /\ rowsKept
        /\ \A c \in oldCells :
              /\ dom[c].kids = last.pre[c].kids
              /\ dom[c].classes = last.pre[c].classes
              /\ \A x \in Range(dom[c].kids) : dom[x].text = last.pre[x].text

\* C6 amended: every earlier row is still there at its index with the same
\* cells; a cell's content is the same except for the node of a wrapper that
\* the call was given again as cell content, which has left its old cell.
C6_AdditiveUpToMovedWrappers ==
    appended =>
        /\ rowsKept
        /\ \A c \in oldCells :
              /\ dom[c].kids = SelectSeq(last.pre[c].kids, LAMBDA x : x \notin movedNodes)
              /\ dom[c].classes = last.pre[c].classes
              /\ \A x \in Range(dom[c].kids) : dom[x].text = last.pre[x].text

C6_Witness ==
    /\ appended
    /\ Len(last.pre[bodyNode].kids) > 0
    /\ \E c \in oldCells : dom[c].kids # last.pre[c].kids
    /\ \E c \in oldCells : dom[c].kids = last.pre[c].kids /\ dom[c].kids # <<>>

\* C7: once the body was cleared, the table has the structure of a newly
\* built TableMaker with the same headings that was given the same batches.
C7_ClearThenAppendAsFresh ==
    fresh # NoTable =>
        structure(dom, tableNode)
            = structure(fresh.W.dom, fresh.W.wr[fresh.this.table].element)

C7_Witness ==
    /\ fresh # NoTable
    /\ fresh.removed > 0
    /\ fresh.rows > 0
    /\ Len(dom[bodyNode].kids) = fresh.rows
    /\ Len(tm.headings) = 2

got == event.op = "get"
settled == event.op = "settle"

\* The cached value is older than the cache duration, or there is none yet.
aged == stats.stores = 0 \/ event.start - stats.storedAt > cache.duration

\* C2: get(force) fetches if and only if force is true or the cached value
\* is older than the cache duration; otherwise it returns the last fetched
\* value without a fetch.  With duration 1000 (2 units), one fetch stored at
\* t, a get at t + 500 makes no fetch and a further get at t + 1500 makes
\* the second fetch.
C2_FetchIffForcedOrAged ==
    got =>
        /\ event.fetched <=> (event.force \/ aged)
        /\ stats.fetches = event.fetches + (IF event.fetched THEN 1 ELSE 0)
        /\ ~event.fetched =>
              /\ event.state = "resolved"
              /\ event.value = stats.latest
              /\ event.id \notin {p.id : p \in pending}
        /\ (/\ cache.duration = 2
            /\ ~event.force
            /\ event.fetches = 1
            /\ stats.stores = 1) =>
              /\ event.start = stats.storedAt + 1 => stats.fetches = 1
              /\ event.start = stats.storedAt + 3 => stats.fetches = 2

C2_Witness ==
    /\ got
    /\ cache.duration = 2
    /\ ~event.force
    /\ stats.calls = 3
    /\ stats.stores = 1
    /\ event.start = stats.storedAt + 3
    /\ stats.fetches = 2

\* C8: when the fetch of a get fails, get rejects with that error and the
\* stored value and expiry are what they were, so that a later get without
\* force, made before the old expiry, returns the previous value without a
\* fetch.
C8_FailedFetchKeepsCache ==
    /\ (settled /\ ~event.reply.ok) =>
          /\ event.state = "rejected"
          /\ event.value = event.reply.error
          /\ event.value.name = "ProgressEvent" => event.value.xhr = event.call.id
          /\ cache = event.before
          /\ stats.stores = event.call.stores => cache = event.call.seen
    /\ (/\ got
        /\ stats.failed # NoOp
        /\ stats.failed.stores = stats.stores
        /\ ~event.force
        /\ event.start <= stats.failed.before.expiry) =>
          /\ ~event.fetched
          /\ event.state = "resolved"
          /\ event.value = stats.failed.before.data

C8_Witness ==
    /\ got
    /\ stats.failed # NoOp
    /\ stats.failed.stores = stats.stores
    /\ stats.stores > 0
    /\ ~event.force
    /\ event.start <= stats.failed.before.expiry
    /\ event.value # Null

\* C10: a get that starts while the cache is expired and another get is
\* still waiting for its fetch starts a fetch of its own; each call stores
\* its own result and expiry when its fetch completes, so the stored value
\* and expiry are those of the fetch that completed last.
C10_NoSingleFlight ==
    /\ (got /\ event.inflight # {} /\ cache.expiry < event.start) =>
          /\ event.fetched
          /\ stats.fetches = event.fetches + 1
          /\ event.id \in {p.id : p \in pending}
    /\ (settled /\ event.reply.ok) =>
          /\ event.state = "resolved"
          /\ cache.data = Num(10 + event.call.id)
          /\ cache.expiry = event.end + cache.duration
          /\ event.value = cache.data
    /\ stats.stores > 0 => cache.data = stats.latest
                           /\ cache.expiry = stats.storedAt + cache.duration

C10_Witness ==
    /\ settled
    /\ event.reply.ok
    /\ ~event.call.force
    /\ event.call.seen.expiry = 0
    /\ event.call.inflight = {}
    /\ stats.stores = 2
    /\ stats.calls = 2
    /\ event.before.data = Num(12)
    /\ cache.data = Num(11)
    /\ \A p \in pending : FALSE

====
